---- MODULE Spec2Model ----
(***************************************************************************)
(* Model of src/vice/src/c64/cart/shortbus_digimax.c: the bus registration *)
(* state machine of the IDE64 ShortBus DigiMAX expansion.                  *)
(*                                                                         *)
(* Every entry point of the file runs to completion on the caller's        *)
(* thread, so each one is a single action.  The bus events a call issues   *)
(* (io_source_unregister, the rewrite of the descriptor bounds,            *)
(* io_source_register) are logged in order in `trace`, so that the         *)
(* intermediate steps of a call stay observable.                           *)
(***************************************************************************)
EXTENDS Integers, Sequences, FiniteSets

VARIABLES
    shortbus_digimax_host_active,       \* line 56
    shortbus_digimax_expansion_active,  \* line 60
    shortbus_digimax_address,           \* line 63
    digimax_device,                     \* lines 73-86: start/end address
    shortbus_digimax_list_item,         \* line 88
    chip_enabled,                       \* digimax_sound_chip.chip_enabled
    io_list,                            \* handles the bus holds for this device
    call,                               \* the last call made: [op, arg]
    ret,                                \* its return value
    trace,                              \* the bus events it issued, in order
    pre,                                \* the program state it started from
    prev,                               \* the call before it: [call, ret, trace]
    digimax_sound_chip_offset,          \* line 94: the channel offset
    digimax_sound_data,                 \* line 99: the local register file
    sound_calls,                        \* the mixer's table of registered chips
    mixer_data,                         \* the mixer's stored channel values
    mixer_trace                         \* the mixer calls of the last call

vars == << shortbus_digimax_host_active, shortbus_digimax_expansion_active,
           shortbus_digimax_address, digimax_device,
           shortbus_digimax_list_item, chip_enabled, io_list,
           call, ret, trace, pre, prev,
           digimax_sound_chip_offset, digimax_sound_data,
           sound_calls, mixer_data, mixer_trace >>

----------------------------------------------------------------------------
(* Numbers of the source. *)

NULL == 0

\* 0xde40, 0xde48: the two cases of the switch in set_shortbus_digimax_base
BASE_DE40 == 56896
BASE_DE48 == 56904

\* 0xde47: the end address of the static initialiser of digimax_device
INIT_END_ADDRESS == 56903

\* WORD is a 16 bit unsigned integer
WORD_MOD == 65536

WORD(x) == x % WORD_MOD

(* Inputs of the calls. *)

\* set_shortbus_digimax_enabled takes an int and normalises it: 0 .. MaxEnableValue
MaxEnableValue == 2

EnableValues == 0 .. MaxEnableValue

\* set_shortbus_digimax_base takes any int: both legal values, 0x0000, and
\* the illegal 0xde44 and 0xde50
BaseValues == { 0, BASE_DE40, 56900, BASE_DE48, 56912 }

LegalBases == { BASE_DE40, BASE_DE48 }

\* the window mask 0x03 of digimax_device: the local addresses are 0 .. 3
ADDRESS_MASK == 3

LocalAddrs == 0 .. ADDRESS_MASK

\* BYTE is an 8 bit unsigned integer: 0xff is its largest value
BYTE_MAX == 255

\* the bytes written to a channel: the smallest and the largest
ByteValues == { 0, BYTE_MAX }

\* the mixer hands out channel blocks whose two low bits are zero
MIXER_BLOCK == 4

\* chips that registered with the mixer before this one: 0 .. MaxOtherChips
MaxOtherChips == 1

MixerAddrs == 0 .. ((MaxOtherChips + 1) * MIXER_BLOCK - 1)

----------------------------------------------------------------------------
(* The program state as one record, so that the handlers compose.          *)

Cur ==
    [ host_active      |-> shortbus_digimax_host_active,
      expansion_active |-> shortbus_digimax_expansion_active,
      address          |-> shortbus_digimax_address,
      start_address    |-> digimax_device.start_address,
      end_address      |-> digimax_device.end_address,
      list_item        |-> shortbus_digimax_list_item,
      chip_enabled     |-> chip_enabled,
      io_list          |-> io_list ]

\* the state at the entry of a call: s the program state, t the bus events
\* issued so far, r the value returned
Begin == [ s |-> Cur, t |-> <<>>, r |-> 0 ]

Event(ev, s, item) ==
    [ ev |-> ev, start |-> s.start_address, end |-> s.end_address,
      item |-> item ]

\* the handle io_source_register returns: a list item not in the list
NewItem(io) == CHOOSE h \in 1 .. (Cardinality(io) + 1) : h \notin io

\* io_source_register(&digimax_device): the bus claims the descriptor's
\* window and hands out a handle
io_source_register(st) ==
    [ st EXCEPT !.s.io_list = @ \cup { NewItem(st.s.io_list) },
                !.t = Append(@, Event("claim", st.s, NewItem(st.s.io_list))) ]

\* io_source_unregister(item): the bus releases the window of the handle
io_source_unregister(st, item) ==
    [ st EXCEPT !.s.io_list = @ \ { item },
                !.t = Append(@, Event("release", st.s, item)) ]

----------------------------------------------------------------------------
(* The entry points, statement by statement.                               *)

\* variant: the host flag is not cleared
unregister_keeps_host_active(st) ==
    IF st.s.list_item # NULL
    THEN [ io_source_unregister(st, st.s.list_item)
             EXCEPT !.s.list_item = NULL,
                    !.s.chip_enabled = 0 ]
    ELSE st

\* variant: the expansion flag is cleared together with the host flag
unregister_clears_expansion_active(st) ==
    LET a == IF st.s.list_item # NULL
             THEN [ io_source_unregister(st, st.s.list_item)
                      EXCEPT !.s.list_item = NULL,
                             !.s.chip_enabled = 0 ]
             ELSE st
    IN  [ a EXCEPT !.s.host_active = 0, !.s.expansion_active = 0 ]

shortbus_digimax_unregister(st) ==
    LET a == IF st.s.list_item # NULL
             THEN [ io_source_unregister(st, st.s.list_item)
                      EXCEPT !.s.list_item = NULL,
                             !.s.chip_enabled = 0 ]
             ELSE st
    IN  [ a EXCEPT !.s.host_active = 0 ]

\* variant: the chip_enabled test is missing from the guard
register_without_enabled_test(st) ==
    LET a == IF st.s.expansion_active # 0
             THEN [ io_source_register(st)
                      EXCEPT !.s.list_item = NewItem(st.s.io_list),
                             !.s.chip_enabled = 1 ]
             ELSE st
    IN  [ a EXCEPT !.s.host_active = 1 ]

shortbus_digimax_register(st) ==
    LET a == IF st.s.chip_enabled = 0 /\ st.s.expansion_active # 0
             THEN [ io_source_register(st)
                      EXCEPT !.s.list_item = NewItem(st.s.io_list),
                             !.s.chip_enabled = 1 ]
             ELSE st
    IN  [ a EXCEPT !.s.host_active = 1 ]

\* variant: the host_active test is missing
set_enabled_without_host_test(st, value) ==
    LET val == IF value # 0 THEN 1 ELSE 0
        a == IF st.s.chip_enabled = 0 /\ val # 0
             THEN [ io_source_register(st)
                      EXCEPT !.s.list_item = NewItem(st.s.io_list),
                             !.s.chip_enabled = 1 ]
             ELSE IF st.s.chip_enabled # 0 /\ val = 0
             THEN LET b == IF st.s.list_item # NULL
                           THEN [ io_source_unregister(st, st.s.list_item)
                                    EXCEPT !.s.list_item = NULL ]
                           ELSE st
                  IN  [ b EXCEPT !.s.chip_enabled = 0 ]
             ELSE st
    IN  [ a EXCEPT !.s.expansion_active = val, !.r = 0 ]

\* variant: disabling leaves the chip_enabled flag set
set_enabled_keeps_chip_enabled(st, value) ==
    LET val == IF value # 0 THEN 1 ELSE 0
        a == IF st.s.host_active # 0
             THEN IF st.s.chip_enabled = 0 /\ val # 0
                  THEN [ io_source_register(st)
                           EXCEPT !.s.list_item = NewItem(st.s.io_list),
                                  !.s.chip_enabled = 1 ]
                  ELSE IF st.s.chip_enabled # 0 /\ val = 0
                  THEN IF st.s.list_item # NULL
                       THEN [ io_source_unregister(st, st.s.list_item)
                                EXCEPT !.s.list_item = NULL ]
                       ELSE st
                  ELSE st
             ELSE st
    IN  [ a EXCEPT !.s.expansion_active = val, !.r = 0 ]

set_shortbus_digimax_enabled(st, value) ==
    LET val == IF value # 0 THEN 1 ELSE 0
        a == IF st.s.host_active # 0
             THEN IF st.s.chip_enabled = 0 /\ val # 0
                  THEN [ io_source_register(st)
                           EXCEPT !.s.list_item = NewItem(st.s.io_list),
                                  !.s.chip_enabled = 1 ]
                  ELSE IF st.s.chip_enabled # 0 /\ val = 0
                  THEN LET b == IF st.s.list_item # NULL
                                THEN [ io_source_unregister(st, st.s.list_item)
                                         EXCEPT !.s.list_item = NULL ]
                                ELSE st
                       IN  [ b EXCEPT !.s.chip_enabled = 0 ]
                  ELSE st
             ELSE st
    IN  [ a EXCEPT !.s.expansion_active = val, !.r = 0 ]

\* variant: the test for an unchanged value is missing
set_base_without_same_value_test(st, val) ==
    LET addr == val
        old  == st.s.chip_enabled
        a == IF old # 0
             THEN set_shortbus_digimax_enabled(st, 0)
             ELSE st
    IN  IF addr \in { BASE_DE40, BASE_DE48 }
        THEN LET b == [ a EXCEPT !.s.start_address = WORD(addr),
                                 !.s.end_address = WORD(addr + 3) ]
                 c == [ b EXCEPT !.t = Append(@, Event("bounds", b.s, NULL)),
                                 !.s.address = val ]
                 d == IF old # 0
                      THEN set_shortbus_digimax_enabled(c, 1)
                      ELSE c
             IN  [ d EXCEPT !.r = 0 ]
        ELSE [ a EXCEPT !.r = 0 - 1 ]

\* variant: the device is enabled again before the bounds are rewritten
set_base_reclaims_before_bounds(st, val) ==
    LET addr == val
        old  == st.s.chip_enabled
    IN  IF val = st.s.address
        THEN [ st EXCEPT !.r = 0 ]
        ELSE LET a == IF old # 0
                      THEN set_shortbus_digimax_enabled(st, 0)
                      ELSE st
             IN  IF addr \in { BASE_DE40, BASE_DE48 }
                 THEN LET d == IF old # 0
                               THEN set_shortbus_digimax_enabled(a, 1)
                               ELSE a
                          b == [ d EXCEPT !.s.start_address = WORD(addr),
                                          !.s.end_address = WORD(addr + 3) ]
                          c == [ b EXCEPT !.t = Append(@, Event("bounds", b.s, NULL)),
                                          !.s.address = val ]
                      IN  [ c EXCEPT !.r = 0 ]
                 ELSE [ a EXCEPT !.r = 0 - 1 ]

\* variant: the device is enabled at the end whether or not it was before
set_base_always_reenables(st, val) ==
    LET addr == val
        old  == st.s.chip_enabled
    IN  IF val = st.s.address
        THEN [ st EXCEPT !.r = 0 ]
        ELSE LET a == IF old # 0
                      THEN set_shortbus_digimax_enabled(st, 0)
                      ELSE st
             IN  IF addr \in { BASE_DE40, BASE_DE48 }
                 THEN LET b == [ a EXCEPT !.s.start_address = WORD(addr),
                                          !.s.end_address = WORD(addr + 3) ]
                          c == [ b EXCEPT !.t = Append(@, Event("bounds", b.s, NULL)),
                                          !.s.address = val ]
                          d == set_shortbus_digimax_enabled(c, 1)
                      IN  [ d EXCEPT !.r = 0 ]
                 ELSE [ a EXCEPT !.r = 0 - 1 ]

\* variant: the device is not enabled again after the bounds are rewritten
set_base_without_reenable(st, val) ==
    LET addr == val
        old  == st.s.chip_enabled
    IN  IF val = st.s.address
        THEN [ st EXCEPT !.r = 0 ]
        ELSE LET a == IF old # 0
                      THEN set_shortbus_digimax_enabled(st, 0)
                      ELSE st
             IN  IF addr \in { BASE_DE40, BASE_DE48 }
                 THEN LET b == [ a EXCEPT !.s.start_address = WORD(addr),
                                          !.s.end_address = WORD(addr + 3) ]
                          c == [ b EXCEPT !.t = Append(@, Event("bounds", b.s, NULL)),
                                          !.s.address = val ]
                      IN  [ c EXCEPT !.r = 0 ]
                 ELSE [ a EXCEPT !.r = 0 - 1 ]

set_shortbus_digimax_base(st, val) ==
    LET addr == val
        old  == st.s.chip_enabled
    IN  IF val = st.s.address
        THEN [ st EXCEPT !.r = 0 ]
        ELSE LET a == IF old # 0
                      THEN set_shortbus_digimax_enabled(st, 0)
                      ELSE st
             IN  IF addr \in { BASE_DE40, BASE_DE48 }
                 THEN LET b == [ a EXCEPT !.s.start_address = WORD(addr),
                                          !.s.end_address = WORD(addr + 3) ]
                          c == [ b EXCEPT !.t = Append(@, Event("bounds", b.s, NULL)),
                                          !.s.address = val ]
                          d == IF old # 0
                               THEN set_shortbus_digimax_enabled(c, 1)
                               ELSE c
                      IN  [ d EXCEPT !.r = 0 ]
                 ELSE [ a EXCEPT !.r = 0 - 1 ]

----------------------------------------------------------------------------
(* The register file and the bridge to the mixer.  A sound state is the    *)
(* record sn: offset and data of this file, calls and mixer of the mixer,  *)
(* m the mixer calls issued so far, r the value returned.                  *)

RECURSIVE BitOr(_, _)
\* a | b on non-negative integers
BitOr(a, b) ==
    IF a = 0 THEN b
    ELSE IF b = 0 THEN a
    ELSE (IF a % 2 = 1 \/ b % 2 = 1 THEN 1 ELSE 0)
            + 2 * BitOr(a \div 2, b \div 2)

\* (WORD)(digimax_sound_chip_offset | addr)
GlobalAddr(offset, addr) == WORD(BitOr(offset, addr))

\* the block the mixer gave to the chip registered as number i
BlockOf(i) == (i - 1) * MIXER_BLOCK

\* sound_chip_register(chip): the mixer enters the chip in its table and
\* returns the next free channel block
sound_chip_register(sn, chip) ==
    [ sn EXCEPT !.calls = Append(@, chip),
                !.m = Append(@, [ fn |-> "register", chip |-> chip ]),
                !.r = BlockOf(Len(sn.calls) + 1) ]

\* sound_store(addr, value, chipno) of a mixer that echoes stored values
sound_store(sn, addr, value, chipno) ==
    [ sn EXCEPT !.mixer[addr] = value,
                !.m = Append(@, [ fn |-> "store", addr |-> addr,
                                  value |-> value, chipno |-> chipno ]) ]

\* sound_read(addr, chipno) of a mixer that echoes stored values
sound_read(sn, addr, chipno) ==
    [ sn EXCEPT !.m = Append(@, [ fn |-> "read", addr |-> addr,
                                  chipno |-> chipno ]),
                !.r = sn.mixer[addr] ]

\* variant: the offset the mixer returns is not stored
sound_chip_init_drops_offset(sn) ==
    sound_chip_register(sn, "digimax")

shortbus_digimax_sound_chip_init(sn) ==
    LET a == sound_chip_register(sn, "digimax")
    IN  [ a EXCEPT !.offset = a.r ]

\* variant: the local address is not or-ed into the mixer address
sound_store_ignores_addr(sn, addr, value) ==
    LET a == [ sn EXCEPT !.data[addr] = value ]
    IN  sound_store(a, WORD(a.offset), value, 0)

shortbus_digimax_sound_store(sn, addr, value) ==
    LET a == [ sn EXCEPT !.data[addr] = value ]
    IN  sound_store(a, GlobalAddr(a.offset, addr), value, 0)

\* variant: the read answers from the local register file
sound_read_returns_local_data(sn, addr) ==
    [ sn EXCEPT !.r = sn.data[addr] ]

shortbus_digimax_sound_read(sn, addr) ==
    sound_read(sn, GlobalAddr(sn.offset, addr), 0)

----------------------------------------------------------------------------
(* The state machine.                                                      *)

\* the program state of the static initialisers: shortbus_digimax_address
\* has no initialiser, so it starts at 0; digimax_sound_chip comes from
\* digimaxcore.c with chip_enabled 0
InitState ==
    [ host_active      |-> 0,
      expansion_active |-> 0,
      address          |-> 0,
      start_address    |-> BASE_DE40,
      end_address      |-> INIT_END_ADDRESS,
      list_item        |-> NULL,
      chip_enabled     |-> 0,
      io_list          |-> {} ]

NoCall == [ op |-> "none", arg |-> 0 ]

Init ==
    /\ shortbus_digimax_host_active = InitState.host_active
    /\ shortbus_digimax_expansion_active = InitState.expansion_active
    /\ shortbus_digimax_address = InitState.address
    /\ digimax_device = [ start_address |-> InitState.start_address,
                          end_address   |-> InitState.end_address ]
    /\ shortbus_digimax_list_item = InitState.list_item
    /\ chip_enabled = InitState.chip_enabled
    /\ io_list = InitState.io_list
    /\ call = NoCall
    /\ ret = 0
    /\ trace = <<>>
    /\ pre = InitState
    /\ prev = [ call |-> NoCall, ret |-> 0, trace |-> <<>> ]
    /\ digimax_sound_chip_offset = 0
    /\ digimax_sound_data = [ a \in LocalAddrs |-> 0 ]
    /\ \E n \in 0 .. MaxOtherChips : sound_calls = [ i \in 1 .. n |-> "other" ]
    /\ mixer_data = [ a \in MixerAddrs |-> 0 ]
    /\ mixer_trace = <<>>

\* a call returns: its effects become the program state
Return(c, st) ==
    /\ shortbus_digimax_host_active' = st.s.host_active
    /\ shortbus_digimax_expansion_active' = st.s.expansion_active
    /\ shortbus_digimax_address' = st.s.address
    /\ digimax_device' = [ start_address |-> st.s.start_address,
                           end_address   |-> st.s.end_address ]
    /\ shortbus_digimax_list_item' = st.s.list_item
    /\ chip_enabled' = st.s.chip_enabled
    /\ io_list' = st.s.io_list
    /\ call' = c
    /\ ret' = st.r
    /\ trace' = st.t
    /\ pre' = Cur
    /\ prev' = [ call |-> call, ret |-> ret, trace |-> trace ]
    /\ mixer_trace' = <<>>
    /\ UNCHANGED << digimax_sound_chip_offset, digimax_sound_data,
                    sound_calls, mixer_data >>

\* resources_int: the variable the registry reads option SBDIGIMAX from
resources_int_SBDIGIMAX == chip_enabled

\* resources_int: the variable the registry reads option SBDIGIMAXbase from
resources_int_SBDIGIMAXbase == shortbus_digimax_address

\* the sound state at the entry of a call
SoundBegin ==
    [ offset |-> digimax_sound_chip_offset,
      data   |-> digimax_sound_data,
      calls  |-> sound_calls,
      mixer  |-> mixer_data,
      m      |-> <<>>,
      r      |-> 0 ]

\* a call into the register file or the bridge returns
SoundReturn(c, sn) ==
    /\ digimax_sound_chip_offset' = sn.offset
    /\ digimax_sound_data' = sn.data
    /\ sound_calls' = sn.calls
    /\ mixer_data' = sn.mixer
    /\ mixer_trace' = sn.m
    /\ call' = c
    /\ ret' = sn.r
    /\ trace' = <<>>
    /\ pre' = Cur
    /\ prev' = [ call |-> call, ret |-> ret, trace |-> trace ]
    /\ UNCHANGED << shortbus_digimax_host_active,
                    shortbus_digimax_expansion_active,
                    shortbus_digimax_address, digimax_device,
                    shortbus_digimax_list_item, chip_enabled, io_list >>

\* the chip has registered with the mixer
ChipRegistered == \E i \in 1 .. Len(sound_calls) : sound_calls[i] = "digimax"

\* the bus dispatches an access only into a window that is claimed
WindowClaimed == io_list # {}

\* chip startup: the chip registers with the mixer, once
SoundChipInit ==
    /\ ~ChipRegistered
    /\ SoundReturn([ op |-> "sound_chip_init", arg |-> 0 ],
                   shortbus_digimax_sound_chip_init(SoundBegin))

SoundStore ==
    /\ WindowClaimed
    /\ \E addr \in LocalAddrs, value \in ByteValues :
          SoundReturn([ op |-> "sound_store", arg |-> addr, value |-> value ],
                      shortbus_digimax_sound_store(SoundBegin, addr, value))

SoundRead ==
    /\ WindowClaimed
    /\ \E addr \in LocalAddrs :
          SoundReturn([ op |-> "sound_read", arg |-> addr ],
                      shortbus_digimax_sound_read(SoundBegin, addr))

\* the host interface comes up after chip startup
HostActivate ==
    /\ ChipRegistered
    /\ Return([ op |-> "register", arg |-> 0 ],
              shortbus_digimax_register(Begin))

HostDeactivate ==
    Return([ op |-> "unregister", arg |-> 0 ],
           shortbus_digimax_unregister(Begin))

ExpansionSet ==
    \E value \in EnableValues :
        Return([ op |-> "set_enabled", arg |-> value ],
               set_shortbus_digimax_enabled(Begin, value))

BaseSet ==
    \E val \in BaseValues :
        Return([ op |-> "set_base", arg |-> val ],
               set_shortbus_digimax_base(Begin, val))

Next ==
    \/ HostActivate
    \/ HostDeactivate
    \/ ExpansionSet
    \/ BaseSet
    \/ SoundChipInit
    \/ SoundStore
    \/ SoundRead

Spec == Init /\ [][Next]_vars

----------------------------------------------------------------------------
(* Vocabulary of the properties.                                           *)

Registered(s) == s.list_item # NULL

Issued(t, ev) == { i \in 1 .. Len(t) : t[i].ev = ev }

\* bus claims outstanding after the first k events of the last call
Outstanding(k) ==
    Cardinality(pre.io_list)
        + Cardinality({ i \in Issued(trace, "claim") : i <= k })
        - Cardinality({ i \in Issued(trace, "release") : i <= k })

\* the last call issued neither a release nor a claim
NoBusEvent == Issued(trace, "claim") = {} /\ Issued(trace, "release") = {}

IsBaseSet == call.op = "set_base"

IsExpansionSet == call.op = "set_enabled"

----------------------------------------------------------------------------
(* C1: between two calls the device is bus-registered                      *)
(* (shortbus_digimax_list_item is non-NULL) if and only if                 *)
(* shortbus_digimax_host_active and shortbus_digimax_expansion_active are  *)
(* both true.                                                              *)
C1_RegisteredIffBothActive ==
    (shortbus_digimax_list_item # NULL)
        <=> (shortbus_digimax_host_active # 0
                /\ shortbus_digimax_expansion_active # 0)

\* registered with both flags set, and back to unregistered by a base change
C1_Witness ==
    /\ IsBaseSet
    /\ Registered(pre)
    /\ shortbus_digimax_list_item = NULL
    /\ shortbus_digimax_host_active # 0
    /\ shortbus_digimax_expansion_active = 0

(* C2: a base-address change to a value outside {0xDE40, 0xDE48} that      *)
(* differs from the current base leaves every piece of state unchanged,    *)
(* also when the device is registered, and issues no release or claim.     *)
C2_RejectedBaseChangesNothing ==
    (IsBaseSet /\ call.arg \notin LegalBases /\ call.arg # pre.address)
        => (Cur = pre /\ NoBusEvent)

(* C3: set_shortbus_digimax_base returns 0 when called with 0xDE40 or      *)
(* 0xDE48 and a negative value when called with any other value, and then  *)
(* the stored base address keeps its previous value; in every reachable    *)
(* state, the initial one included.                                        *)
C3_BaseValidation ==
    IsBaseSet =>
        IF call.arg \in LegalBases
        THEN ret = 0
        ELSE ret < 0 /\ shortbus_digimax_address = pre.address

(* C4: the number of outstanding bus claims of the device is never greater *)
(* than 1, after every event of every call; a host-activate or an          *)
(* expansion-enable made while registered issues no claim.                 *)
C4_AtMostOneClaim ==
    /\ \A k \in 0 .. Len(trace) : Outstanding(k) <= 1
    /\ Cardinality(io_list) <= 1
    /\ ( /\ Registered(pre)
         /\ \/ call.op = "register"
            \/ IsExpansionSet /\ call.arg # 0 )
            => Issued(trace, "claim") = {}

\* a host-activate made while the device is registered
C4_Witness ==
    /\ call.op = "register"
    /\ Registered(pre)
    /\ Cardinality(io_list) = 1

C6_WindowIsBasePlus3 ==
    /\ digimax_device.start_address = shortbus_digimax_address
    /\ digimax_device.end_address = shortbus_digimax_address + 3
    /\ \A i \in Issued(trace, "claim") :
            /\ trace[i].start = shortbus_digimax_address
            /\ trace[i].end = trace[i].start + 3

(* C7: setting the base address to the value it currently holds returns 0  *)
(* and is a no-op: no release or claim is issued and the whole program     *)
(* state is unchanged.                                                     *)
C7_SameBaseIsNoOp ==
    (IsBaseSet /\ call.arg = pre.address)
        => (ret = 0 /\ trace = <<>> /\ Cur = pre)

\* the current base set again while the device is registered
C7_Witness ==
    /\ IsBaseSet
    /\ call.arg = pre.address
    /\ call.arg = BASE_DE48
    /\ Registered(pre)
    /\ shortbus_digimax_list_item # NULL

(* C8: from the initial state, enabling the expansion while the host is    *)
(* inactive claims no window; a following host activation then claims      *)
(* exactly the window [0xDE40, 0xDE43] and sets the chip-enabled flag.     *)
C8_EnableThenActivate ==
    [][ /\ (Cur = InitState /\ call'.op = "set_enabled" /\ call'.arg # 0)
            => (trace' = <<>> /\ io_list' = {})
        /\ ( /\ IsExpansionSet /\ call.arg # 0 /\ pre = InitState
             /\ call'.op = "register" )
            => /\ trace' = << [ ev |-> "claim", start |-> BASE_DE40,
                                end |-> BASE_DE40 + 3,
                                item |-> shortbus_digimax_list_item' ] >>
               /\ shortbus_digimax_list_item' # NULL
               /\ chip_enabled' = 1
      ]_vars

(* C9: host deactivation never changes expansionActive; when the device is *)
(* registered it releases the window, clears hostActive and leaves         *)
(* expansionActive true, and a host activation that follows it directly    *)
(* claims the window again.                                                *)
C9_DeactivateKeepsExpansion ==
    [][ /\ call'.op = "unregister"
            => /\ shortbus_digimax_expansion_active'
                    = shortbus_digimax_expansion_active
               /\ shortbus_digimax_host_active' = 0
               /\ shortbus_digimax_list_item # NULL
                    => /\ trace' = << [ ev |-> "release",
                                        start |-> digimax_device.start_address,
                                        end |-> digimax_device.end_address,
                                        item |-> shortbus_digimax_list_item ] >>
                       /\ shortbus_digimax_list_item' = NULL
                       /\ io_list' = {}
                       /\ shortbus_digimax_expansion_active' = 1
        /\ ( /\ call.op = "unregister" /\ Registered(pre)
             /\ call'.op = "register" )
            => /\ trace' = << [ ev |-> "claim",
                                start |-> pre.start_address,
                                end |-> pre.end_address,
                                item |-> shortbus_digimax_list_item' ] >>
               /\ shortbus_digimax_list_item' # NULL
               /\ io_list' = { shortbus_digimax_list_item' }
               /\ shortbus_digimax_host_active' = 1
               /\ shortbus_digimax_expansion_active' = 1
      ]_vars

\* registered, host deactivated, host activated again: the window is back
C9_Witness ==
    /\ call.op = "register"
    /\ prev.call.op = "unregister"
    /\ Issued(prev.trace, "release") # {}
    /\ Issued(trace, "claim") # {}
    /\ shortbus_digimax_list_item # NULL

(* C10: while hostActive is false, setting the expansion option changes    *)
(* only expansionActive: no claim or release is issued, and registration,  *)
(* chip-enabled flag, hostActive, base address and window bounds are       *)
(* unchanged.                                                              *)
C10_ExpansionSetWhileHostInactive ==
    (IsExpansionSet /\ pre.host_active = 0)
        => /\ trace = <<>>
           /\ Cur = [ pre EXCEPT !.expansion_active =
                                    IF call.arg # 0 THEN 1 ELSE 0 ]

\* the expansion switched on, then off again, with the host inactive
C10_Witness ==
    /\ IsExpansionSet
    /\ call.arg = 0
    /\ pre.host_active = 0
    /\ pre.expansion_active = 1
    /\ shortbus_digimax_expansion_active = 0

----------------------------------------------------------------------------
(* Vocabulary of the properties on the register file and the bridge.       *)

\* the channel blocks the mixer has allocated to this chip
DigimaxBlocks ==
    { BlockOf(i) : i \in { j \in 1 .. Len(sound_calls) :
                                sound_calls[j] = "digimax" } }

\* the channel blocks the mixer has allocated to the other chips
OtherBlocks ==
    { BlockOf(i) : i \in { j \in 1 .. Len(sound_calls) :
                                sound_calls[j] # "digimax" } }

\* what a read of local channel c returns in the current state
ReadBack(c) == shortbus_digimax_sound_read(SoundBegin, c).r

C12_WriteReadRoundTrip ==
    [][ /\ call'.op = "sound_store"
            => \A c \in LocalAddrs :
                  ReadBack(c)' = IF c = call'.arg THEN call'.value
                                 ELSE ReadBack(c)
        /\ ( /\ call.op = "sound_store"
             /\ call'.op = "sound_read"
             /\ call'.arg = call.arg )
            => ret' = call.value
      ]_vars

\* a non-zero byte written to channel 1 and read back at once, while
\* channel 0 holds another value
C12_Witness ==
    /\ call.op = "sound_read"
    /\ prev.call.op = "sound_store"
    /\ prev.call.arg = call.arg
    /\ call.arg = 1
    /\ ret = BYTE_MAX
    /\ ReadBack(0) # ret

(* C13: a register write to local address a with value v issues exactly    *)
(* one mixer store at (offset | a) with value v and context 0; a register  *)
(* read of a returns exactly the mixer's read of (offset | a) with         *)
(* context 0; and with mixer offsets whose two low bits are zero, two      *)
(* devices with different offsets never address the same global channel.   *)
C13_ForwardToMixer ==
    /\ call.op = "sound_store"
        => mixer_trace =
             << [ fn |-> "store",
                  addr |-> BitOr(digimax_sound_chip_offset, call.arg),
                  value |-> call.value, chipno |-> 0 ] >>
    /\ call.op = "sound_read"
        => /\ mixer_trace =
                << [ fn |-> "read",
                     addr |-> BitOr(digimax_sound_chip_offset, call.arg),
                     chipno |-> 0 ] >>
           /\ ret = mixer_data[BitOr(digimax_sound_chip_offset, call.arg)]
    /\ \A o \in OtherBlocks, a \in LocalAddrs, b \in LocalAddrs :
          o # digimax_sound_chip_offset
            => BitOr(o, b) # BitOr(digimax_sound_chip_offset, a)

\* a read of channel 3 answered by the mixer, with a second chip registered
C13_Witness ==
    /\ call.op = "sound_read"
    /\ call.arg = 3
    /\ OtherBlocks # {}
    /\ digimax_sound_chip_offset = MIXER_BLOCK
    /\ Len(mixer_trace) = 1
    /\ ret = BYTE_MAX

----------------------------------------------------------------------------
\* a base-address call that changes the base to another legal value
IsRelocation ==
    /\ IsBaseSet
    /\ call.arg \in LegalBases
    /\ call.arg # pre.address

(* C14: a base-address change to a different legal value while the device  *)
(* is not registered only updates the stored base address and the          *)
(* descriptor window bounds: it issues no claim or release and leaves      *)
(* hostActive, expansionActive, the registration and the chip-enabled flag *)
(* unchanged.                                                              *)
C14_RelocationWhileUnregistered ==
    (IsRelocation /\ ~Registered(pre))
        => /\ NoBusEvent
           /\ ret = 0
           /\ Cur = [ pre EXCEPT !.address = call.arg,
                                 !.start_address = call.arg,
                                 !.end_address = call.arg + 3 ]

\* the base moved to 0xDE48 with the host active and the expansion off
C14_Witness ==
    /\ IsRelocation
    /\ ~Registered(pre)
    /\ pre.host_active = 1
    /\ pre.expansion_active = 0
    /\ pre.address = BASE_DE40
    /\ shortbus_digimax_address = BASE_DE48
    /\ digimax_device.end_address = BASE_DE48 + 3

(* C15: the value the configuration registry reads back for option         *)
(* SBDIGIMAX is the expansion-enabled flag: in every reachable state the   *)
(* variable the resource table exposes for SBDIGIMAX equals                *)
(* expansionActive.                                                        *)
C15_ResourceReadsExpansionActive ==
    resources_int_SBDIGIMAX = shortbus_digimax_expansion_active

(* C16: between two calls the chip-enabled flag is 1 exactly when a bus    *)
(* registration handle is held (shortbus_digimax_list_item is non-NULL).   *)
C16_ChipEnabledIffHandle ==
    /\ chip_enabled \in { 0, 1 }
    /\ (chip_enabled = 1) <=> (shortbus_digimax_list_item # NULL)

\* the expansion switched off while registered: flag and handle both drop
C16_Witness ==
    /\ IsExpansionSet
    /\ call.arg = 0
    /\ pre.chip_enabled = 1
    /\ Registered(pre)
    /\ chip_enabled = 0
    /\ shortbus_digimax_list_item = NULL

(* C17: a successful base-address change to a different legal value        *)
(* preserves the activation state: hostActive, expansionActive, the        *)
(* registration status and the chip-enabled flag are the same after the    *)
(* call as before it.                                                      *)
C17_RelocationKeepsActivation ==
    (IsRelocation /\ ret = 0)
        => /\ shortbus_digimax_host_active = pre.host_active
           /\ shortbus_digimax_expansion_active = pre.expansion_active
           /\ Registered(Cur) <=> Registered(pre)
           /\ chip_enabled = pre.chip_enabled

\* a registered device whose base was never set is moved to 0xDE40
C17_Witness ==
    /\ IsRelocation
    /\ ret = 0
    /\ Registered(pre)
    /\ pre.address = 0
    /\ shortbus_digimax_address = BASE_DE40
    /\ shortbus_digimax_list_item # NULL
    /\ shortbus_digimax_expansion_active = 1

====
